---- MODULE Spec2Model ----
(***************************************************************************)
(* Model of personal-finance-analyzer/credit_card_transactions_pipeline.py *)
(*                                                                         *)
(* One run of main() is a sequence of steps over the files on disk: the    *)
(* CSV files of the temp directory, the dated snapshot of the imported     *)
(* batch and the transaction history file.  A data frame is a sequence of  *)
(* rows in row order; a row is a record of its columns.  Dates are day     *)
(* numbers (the ISO date strings of the export order the same way), text   *)
(* is a sequence of characters, an amount is its text, a missing value is  *)
(* NaN.                                                                    *)
(***************************************************************************)
EXTENDS Integers, Sequences, FiniteSets, TLC

VARIABLES
    pc,                      \* position of main(): "idle" between runs
    temp,                    \* number of CSV files lying in the temp directory
    CSV_FILES,               \* number of CSV files listed when the run started
    i,                       \* index of the next file of the loop of main()
    df,                      \* main()'s df in the loop: the frame of the last file
    transactions_df,         \* main()'s transactions_df: the batch of the run
    transaction_history_df,  \* main()'s transaction_history_df
    history_exists,          \* whether the history file is on disk
    history,                 \* rows of the history file
    snapshot,                \* rows of the snapshot file of the day of the run
    result,                  \* how the last run ended (none during a run)
    effects,                 \* what the current run has done to the disk so far
    prior_history            \* rows of the history file when the run started

vars == <<pc, temp, CSV_FILES, i, df, transactions_df, transaction_history_df,
          history_exists, history, snapshot, result, effects, prior_history>>

-----------------------------------------------------------------------------
(* Bounds of the model *)

MaxFiles == 2      \* CSV files staged for one run
MaxRows == 2       \* rows of one CSV file
MaxBatch == 2      \* rows of the batch of one run (after cleaning)

-----------------------------------------------------------------------------
(* Values *)

NaN == "NaN"

\* Characters in code point order: '#' < '1' < 'A' < 'a' < 'b'.
Alphabet == <<"#", "1", "A", "a", "b">>

Ord(ch) == CHOOSE k \in 1..Len(Alphabet) : Alphabet[k] = ch

\* Headers of a Capital One export.
Headers == {"Transaction Date", "Posted Date", "Card No.", "Description",
            "Category", "Debit", "Credit"}

\* Rows found in the exports (dates as day numbers, text character by
\* character): two charges of the same day, merchant and
\* amount on two cards, an older charge at another merchant, and a payment
\* (no debit).
RawRows ==
    { [date |-> 2, card_number |-> "c1", description |-> <<"A", "1">>,
       debit |-> "5.00", credit |-> NaN],
      [date |-> 2, card_number |-> "c2", description |-> <<"A", "1">>,
       debit |-> "5.00", credit |-> NaN],
      [date |-> 1, card_number |-> "c1", description |-> <<"b", "#">>,
       debit |-> "5.00", credit |-> NaN],
      [date |-> 2, card_number |-> "c1", description |-> <<"b", "#">>,
       debit |-> NaN, credit |-> "5.00"] }

\* Column layouts of the files: complete, without 'Description', without
\* 'Posted Date'.
ColumnSets == {Headers, Headers \ {"Description"}, Headers \ {"Posted Date"}}

SeqsUpTo(S, n) == UNION {[1..k -> S] : k \in 0..n}

CsvFiles == [columns : ColumnSets, rows : SeqsUpTo(RawRows, MaxRows)]

\* Merchants the local rules know, and the label they give.
KnownMerchants == {<<"a">>}

LocalCategory == "food"

\* What the classification service answers for a merchant the local rules do
\* not know; NaN leaves the transaction unclassified.
ApiAnswers == {"gas", NaN}

\* Ascending order of the labels.
CategoryOrder == <<"food", "gas">>

Range(s) == {s[k] : k \in 1..Len(s)}

-----------------------------------------------------------------------------
(* Text *)

Lower(ch) == IF ch = "A" THEN "a" ELSE ch

str_lower(s) == [k \in 1..Len(s) |-> Lower(s[k])]

IsDigitOrHash(ch) == ch \in {"1", "#"}

RECURSIVE str_replace(_)
str_replace(s) ==
    IF s = <<>> THEN <<>>
    ELSE IF IsDigitOrHash(Head(s)) THEN str_replace(Tail(s))
    ELSE <<Head(s)>> \o str_replace(Tail(s))

RECURSIVE StrLess(_, _)
StrLess(s, t) ==
    IF t = <<>> THEN FALSE
    ELSE IF s = <<>> THEN TRUE
    ELSE IF Head(s) # Head(t) THEN Ord(Head(s)) < Ord(Head(t))
    ELSE StrLess(Tail(s), Tail(t))

-----------------------------------------------------------------------------
(* Extract *)

\* The renaming of extract_capital_one_transactions; other headers are kept.
Rename(h) ==
    CASE h = "Transaction Date" -> "date"
      [] h = "Card No." -> "card_number"
      [] h = "Description" -> "business_or_person_original"
      [] h = "Category" -> "category"
      [] h = "Debit" -> "debit"
      [] h = "Credit" -> "credit"
      [] OTHER -> h

expected_columns == {"date", "card_number", "business_or_person_original",
                     "category", "debit", "credit"}

\* The columns of a frame read from a file with these headers.
RenamedColumns(columns) == {Rename(h) : h \in columns}

\* The frame read from a file: its renamed columns and its rows.
extract_capital_one_transactions(csv) ==
    [columns |-> RenamedColumns(csv.columns),
     rows |-> [k \in 1..Len(csv.rows) |->
                 [date |-> csv.rows[k].date,
                  card_number |-> csv.rows[k].card_number,
                  business_or_person_original |-> csv.rows[k].description,
                  debit |-> csv.rows[k].debit,
                  credit |-> csv.rows[k].credit]]]

\* The test of the expected format: FALSE is the raise of the function.
HasExpectedColumns(columns) ==
    expected_columns \subseteq RenamedColumns(columns)

-----------------------------------------------------------------------------
(* Transform *)

RECURSIVE SelectRows(_, _, _)
\* The rows of frame whose index is in keep, from index k on, in row order.
SelectRows(frame, keep, k) ==
    IF k > Len(frame) THEN <<>>
    ELSE (IF k \in keep THEN <<frame[k]>> ELSE <<>>)
         \o SelectRows(frame, keep, k + 1)

dropna_debit(rows) ==
    SelectRows(rows, {k \in 1..Len(rows) : rows[k].debit # NaN}, 1)

\* The cleaner without its dropna: rows without a debit stay in the frame.
clean_capital_one_transactions_keepna(rows) ==
    [k \in 1..Len(rows) |->
        [date |-> rows[k].date,
         card_number |-> rows[k].card_number,
         business_or_person_original |->
             str_lower(rows[k].business_or_person_original),
         business_or_person |->
             str_replace(str_lower(rows[k].business_or_person_original)),
         debit |-> rows[k].debit,
         credit |-> rows[k].credit]]

\* Lower-cases the description, derives the merchant name without digits and
\* '#', and drops the rows that have no debit.
clean_capital_one_transactions(rows) ==
    dropna_debit(
        [k \in 1..Len(rows) |->
            [date |-> rows[k].date,
             card_number |-> rows[k].card_number,
             business_or_person_original |->
                 str_lower(rows[k].business_or_person_original),
             business_or_person |->
                 str_replace(str_lower(rows[k].business_or_person_original)),
             debit |-> rows[k].debit,
             credit |-> rows[k].credit]])

\* The local rules: the label of a known merchant, NaN for the others.
categorize_transactions(rows) ==
    [k \in 1..Len(rows) |->
        [date |-> rows[k].date,
         card_number |-> rows[k].card_number,
         business_or_person_original |-> rows[k].business_or_person_original,
         business_or_person |-> rows[k].business_or_person,
         category |-> IF rows[k].business_or_person \in KnownMerchants
                      THEN LocalCategory ELSE NaN,
         debit |-> rows[k].debit,
         credit |-> rows[k].credit]]

\* The label of a row: the one the local rules gave, else the answer of the
\* classification service.
get_category_from_api(row, answer) ==
    IF row.category # NaN THEN row.category ELSE answer

GroupKey(r) == <<r.date, r.card_number, r.business_or_person_original, r.debit>>

\* cumcount() of row k within its group: the rows of the group before it.
cumcount(rows, k) ==
    Cardinality({j \in 1..(k - 1) : GroupKey(rows[j]) = GroupKey(rows[k])})

\* The numbering without the + 1: the first row of a group gets 0.
set_unique_identifiers_zero_based(rows) ==
    [k \in 1..Len(rows) |->
        [date |-> rows[k].date,
         card_number |-> rows[k].card_number,
         business_or_person_original |-> rows[k].business_or_person_original,
         business_or_person |-> rows[k].business_or_person,
         category |-> rows[k].category,
         debit |-> rows[k].debit,
         credit |-> rows[k].credit,
         sequence |-> cumcount(rows, k)]]

set_unique_identifiers(rows) ==
    [k \in 1..Len(rows) |->
        [date |-> rows[k].date,
         card_number |-> rows[k].card_number,
         business_or_person_original |-> rows[k].business_or_person_original,
         business_or_person |-> rows[k].business_or_person,
         category |-> rows[k].category,
         debit |-> rows[k].debit,
         credit |-> rows[k].credit,
         sequence |-> cumcount(rows, k) + 1]]

\* df['category'] = df.apply(get_category_from_api, axis=1): row k is
\* answered answers[k].
apply_get_category_from_api(rows, answers) ==
    [k \in 1..Len(rows) |->
        [rows[k] EXCEPT !.category = get_category_from_api(rows[k], answers[k])]]

\* The body of the loop of main() on the rows of one extracted file.
ProcessedFrame(rows, answers) ==
    apply_get_category_from_api(
        set_unique_identifiers(
            categorize_transactions(clean_capital_one_transactions(rows))),
        answers)

\* The subset of drop_duplicates in clean_transaction_history.
DedupKey(r) == <<r.date, r.business_or_person_original, r.debit, r.sequence>>

\* drop_duplicates keeps the first row of every key.
drop_duplicates(rows) ==
    SelectRows(rows,
               {k \in 1..Len(rows) :
                   \A j \in 1..(k - 1) : DedupKey(rows[j]) # DedupKey(rows[k])},
               1)

CategoryRank(cat) == CHOOSE k \in 1..Len(CategoryOrder) : CategoryOrder[k] = cat

\* Ascending order of the category column; missing values sort last.
CategoryLess(a, b) ==
    IF a = NaN THEN FALSE
    ELSE IF b = NaN THEN TRUE
    ELSE CategoryRank(a) < CategoryRank(b)

\* a sorts strictly before b: date descending, category ascending, merchant
\* ascending.
SortsBefore(a, b) ==
    \/ a.date > b.date
    \/ /\ a.date = b.date
       /\ CategoryLess(a.category, b.category)
    \/ /\ a.date = b.date
       /\ a.category = b.category
       /\ StrLess(a.business_or_person, b.business_or_person)

\* r put into the sorted rows behind every row that does not sort after it.
InsertRow(sorted, r) ==
    LET n == Cardinality({k \in 1..Len(sorted) : ~SortsBefore(r, sorted[k])})
    IN SubSeq(sorted, 1, n) \o <<r>> \o SubSeq(sorted, n + 1, Len(sorted))

RECURSIVE SortFirst(_, _)
SortFirst(rows, n) ==
    IF n = 0 THEN <<>> ELSE InsertRow(SortFirst(rows, n - 1), rows[n])

\* sort_values on several columns is a stable sort.
sort_values(rows) == SortFirst(rows, Len(rows))

\* The cleaning of the history without drop_duplicates.
clean_transaction_history_keep_duplicates(rows) == sort_values(rows)

clean_transaction_history(rows) == sort_values(drop_duplicates(rows))

\* pd.concat of the batch and the history, then clean_transaction_history.
MergeLedger(batch, ledger) == clean_transaction_history(batch \o ledger)

\* The frame main() hands to to_csv for the history file.
SavedHistory(batch, merged) == batch

-----------------------------------------------------------------------------
(* State *)

UniqueKeys(rows) ==
    \A j, k \in 1..Len(rows) : DedupKey(rows[j]) = DedupKey(rows[k]) => j = k

IsSorted(rows) ==
    \A j, k \in 1..Len(rows) : j < k => ~SortsBefore(rows[k], rows[j])

\* How a run ends: main() returns, or a function raises and the error leaves
\* main().
Returns(where) == [kind |-> "return", where |-> where, error |-> "none"]

Raises(error, where) == [kind |-> "raise", where |-> where, error |-> error]

NoResult == [kind |-> "none", where |-> "none", error |-> "none"]

\* A fresh installation: an empty history file, or none; every later
\* history is one the program wrote.
Init ==
    /\ pc = "idle"
    /\ temp \in 0..MaxFiles
    /\ CSV_FILES = 0
    /\ i = 1
    /\ df = <<>>
    /\ transactions_df = <<>>
    /\ transaction_history_df = <<>>
    /\ history_exists \in BOOLEAN
    /\ history = <<>>
    /\ snapshot = <<>>
    /\ result = NoResult
    /\ effects = {}
    /\ prior_history = <<>>

-----------------------------------------------------------------------------
(* Steps *)

\* The process ends (main() returns or an error leaves it): its variables
\* are gone, the files stay as they are.
Exit(how) ==
    /\ pc' = "idle"
    /\ result' = how
    /\ CSV_FILES' = 0
    /\ i' = 1
    /\ df' = <<>>
    /\ transactions_df' = <<>>
    /\ transaction_history_df' = <<>>

\* A new export is put into the temp directory between two runs.
StageFile ==
    /\ pc = "idle"
    /\ temp < MaxFiles
    /\ temp' = temp + 1
    /\ UNCHANGED <<pc, CSV_FILES, i, df, transactions_df, transaction_history_df,
                   history_exists, history, snapshot, result, effects,
                   prior_history>>

\* The program starts: CSV_FILES is listed and main() is entered.  The
\* snapshot file of the day is not written yet.
Start ==
    /\ pc = "idle"
    /\ pc' = "loop"
    /\ CSV_FILES' = temp
    /\ i' = 1
    /\ df' = <<>>
    /\ transactions_df' = <<>>
    /\ transaction_history_df' = <<>>
    /\ result' = NoResult
    /\ effects' = {}
    /\ prior_history' = history
    /\ snapshot' = <<>>
    /\ UNCHANGED <<temp, history_exists, history>>

\* extract_capital_one_transactions raises on a file whose headers lack an
\* expected column; the error leaves main().
ExtractFails(columns) ==
    /\ pc = "loop"
    /\ i <= CSV_FILES
    /\ ~HasExpectedColumns(columns)
    /\ Exit(Raises("ValueError", "extract_capital_one_transactions"))
    /\ UNCHANGED <<temp, history_exists, history, snapshot, effects, prior_history>>

\* clean_capital_one_transactions drops 'Posted Date' and raises when the
\* file has no such column.
CleanFails(columns) ==
    /\ pc = "loop"
    /\ i <= CSV_FILES
    /\ HasExpectedColumns(columns)
    /\ "Posted Date" \notin RenamedColumns(columns)
    /\ Exit(Raises("KeyError", "clean_capital_one_transactions"))
    /\ UNCHANGED <<temp, history_exists, history, snapshot, effects, prior_history>>

\* One pass of the loop of main(): the file is extracted, cleaned,
\* categorized, numbered and appended to the batch.
ProcessFile(csv) ==
    /\ pc = "loop"
    /\ i <= CSV_FILES
    /\ HasExpectedColumns(csv.columns)
    /\ "Posted Date" \in RenamedColumns(csv.columns)
    /\ LET cleaned == clean_capital_one_transactions(
                          extract_capital_one_transactions(csv).rows)
       IN /\ Len(transactions_df) + Len(cleaned) <= MaxBatch
          /\ \E answers \in [1..Len(cleaned) -> ApiAnswers] :
                /\ df' = ProcessedFrame(
                             extract_capital_one_transactions(csv).rows, answers)
                /\ transactions_df' = transactions_df \o df'
    /\ i' = i + 1
    /\ UNCHANGED <<pc, temp, CSV_FILES, transaction_history_df, history_exists,
                   history, snapshot, result, effects, prior_history>>

\* main() with load_transactions ahead of the test of transactions_df.empty.
ReturnEmptyAfterLoad ==
    /\ pc = "loop"
    /\ i > CSV_FILES
    /\ transactions_df = <<>>
    /\ snapshot' = transactions_df
    /\ effects' = effects \cup {"snapshot"}
    /\ Exit(Returns("empty batch"))
    /\ UNCHANGED <<temp, history_exists, history, prior_history>>

\* transactions_df.empty: main() returns.
ReturnEmpty ==
    /\ pc = "loop"
    /\ i > CSV_FILES
    /\ transactions_df = <<>>
    /\ Exit(Returns("empty batch"))
    /\ UNCHANGED <<temp, history_exists, history, snapshot, effects, prior_history>>

\* The loop is left with a batch: load_transactions writes it to the dated
\* snapshot file.  df is not used after the loop.
LoadTransactions ==
    /\ pc = "loop"
    /\ i > CSV_FILES
    /\ transactions_df # <<>>
    /\ snapshot' = transactions_df
    /\ effects' = effects \cup {"snapshot"}
    /\ pc' = "history"
    /\ df' = <<>>
    /\ UNCHANGED <<temp, CSV_FILES, i, transactions_df,
                   transaction_history_df, history_exists, history, result,
                   prior_history>>

\* extract_transaction_history reads the history file.
ExtractHistory ==
    /\ pc = "history"
    /\ history_exists
    /\ transaction_history_df' = history
    /\ effects' = effects \cup {"history_read"}
    /\ pc' = "merge"
    /\ UNCHANGED <<temp, CSV_FILES, i, df, transactions_df, history_exists,
                   history, snapshot, result, prior_history>>

\* extract_transaction_history raises when the history file is missing.
HistoryMissing ==
    /\ pc = "history"
    /\ ~history_exists
    /\ Exit(Raises("FileExistsError", "extract_transaction_history"))
    /\ UNCHANGED <<temp, history_exists, history, snapshot, effects, prior_history>>

\* The batch and the history are concatenated and cleaned.
MergeHistory ==
    /\ pc = "merge"
    /\ transaction_history_df' = MergeLedger(transactions_df, transaction_history_df)
    /\ pc' = "save"
    /\ UNCHANGED <<temp, CSV_FILES, i, df, transactions_df, history_exists,
                   history, snapshot, result, effects, prior_history>>

\* The history file is rewritten.
SaveHistory ==
    /\ pc = "save"
    /\ history' = SavedHistory(transactions_df, transaction_history_df)
    /\ effects' = effects \cup {"history_write"}
    /\ pc' = "trash"
    /\ UNCHANGED <<temp, CSV_FILES, i, df, transactions_df,
                   transaction_history_df, history_exists, snapshot, result,
                   prior_history>>

\* send_csv_files_to_trash moves the listed files out of the temp directory;
\* main() ends.
SendCsvFilesToTrash ==
    /\ pc = "trash"
    /\ temp' = temp - CSV_FILES
    /\ effects' = effects \cup {"trash"}
    /\ Exit(Returns("end of main"))
    /\ prior_history' = <<>>
    /\ UNCHANGED <<history_exists, history, snapshot>>

Next ==
    \/ StageFile
    \/ Start
    \/ \E columns \in ColumnSets : ExtractFails(columns)
    \/ \E columns \in ColumnSets : CleanFails(columns)
    \/ \E csv \in CsvFiles : ProcessFile(csv)
    \/ ReturnEmpty
    \/ LoadTransactions
    \/ ExtractHistory
    \/ HistoryMissing
    \/ MergeHistory
    \/ SaveHistory
    \/ SendCsvFilesToTrash

Spec == Init /\ [][Next]_vars

-----------------------------------------------------------------------------
(* Properties *)

Keys(rows) == {DedupKey(r) : r \in Range(rows)}

\* Within every group of rows sharing (date, card_number, merchant_raw,
\* debit_amount) the sequence values are 1..N, N the size of the group,
\* increasing in row order.
NumberedInGroups(rows) ==
    \A k \in 1..Len(rows) :
        LET group == {j \in 1..Len(rows) : GroupKey(rows[j]) = GroupKey(rows[k])}
        IN /\ {rows[j].sequence : j \in group} = 1..Cardinality(group)
           /\ \A j \in group : j < k => rows[j].sequence < rows[k].sequence

\* C1: once a run has rewritten the history file, the file holds a record for
\* every dedup key of the history before the run and for every dedup key of
\* the new batch: no record of the prior history is lost.
C1_HistoryIsMergedLedger ==
    pc = "trash" =>
        Keys(prior_history) \cup Keys(transactions_df) \subseteq Keys(history)

\* C2: when a run is aborted because the history file is missing, it has
\* written neither the dated snapshot nor the history file.
C2_AbortBeforeAnyWrite ==
    result = Raises("FileExistsError", "extract_transaction_history") =>
        /\ effects \cap {"snapshot", "history_write"} = {}
        /\ snapshot = <<>>

\* C3: no two records of the history file share the dedup key (date,
\* merchant_raw, debit_amount, sequence), after any sequence of runs.
C3_UniqueDedupKeys == UniqueKeys(history)

\* C4: merging is idempotent: merging the batch into the ledger obtained by
\* merging it into the history gives that ledger again, same records in the
\* same order; and a second run on the same batch writes the history file
\* the first run wrote.
C4_MergeIdempotent ==
    pc = "save" =>
        /\ transaction_history_df = MergeLedger(transactions_df, history)
        /\ MergeLedger(transactions_df, transaction_history_df)
               = transaction_history_df
        /\ SavedHistory(transactions_df,
                        MergeLedger(transactions_df,
                                    SavedHistory(transactions_df,
                                                 transaction_history_df)))
               = SavedHistory(transactions_df, transaction_history_df)

\* The merge of C4 has dropped a duplicate of the batch and kept a record
\* that only the history has.
C4_Witness ==
    /\ pc = "save"
    /\ Keys(transactions_df) \cap Keys(history) # {}
    /\ Keys(history) \ Keys(transactions_df) # {}
    /\ Len(transaction_history_df) < Len(transactions_df) + Len(history)

\* C5 as stated: over the whole batch of a run (all its input files), the
\* sequence values of every group are exactly 1..N in row order.
C5_BatchNumberedInGroups == NumberedInGroups(transactions_df)

\* C5 as amended: over the records of one input file, the sequence values of
\* every group are exactly 1..N in row order.
C5_FileNumberedInGroups == NumberedInGroups(df)

\* A file of C5 with a group of two records.
C5_Witness ==
    /\ pc = "loop"
    /\ \E j, k \in 1..Len(df) : j < k /\ GroupKey(df[j]) = GroupKey(df[k])

\* C6: two rows of a batch that agree in date, merchant_raw and debit_amount
\* have different sequence values, hence different dedup keys, and both are
\* in the merged ledger.
C6_IdenticalRowsSurvive ==
    pc = "save" =>
        \A j, k \in 1..Len(transactions_df) :
            LET a == transactions_df[j]
                b == transactions_df[k]
            IN (/\ j < k
                /\ a.date = b.date
                /\ a.business_or_person_original = b.business_or_person_original
                /\ a.debit = b.debit)
               => /\ a.sequence # b.sequence
                  /\ DedupKey(a) # DedupKey(b)
                  /\ Cardinality({n \in 1..Len(transaction_history_df) :
                         DedupKey(transaction_history_df[n])
                             \in {DedupKey(a), DedupKey(b)}}) = 2

\* C7: the history file a run has written is sorted by date descending, then
\* category ascending, then merchant_normalized ascending.
C7_HistorySorted == "history_write" \in effects => IsSorted(history)

\* C8: a file that lacks an expected column makes
\* extract_capital_one_transactions raise, and the error raised is the
\* TypeError the repository's test expects.
C8_SchemaErrorIsTypeError ==
    result.where = "extract_capital_one_transactions" =>
        /\ result.kind = "raise"
        /\ result.error = "TypeError"

\* C9: a run that finds no input file, or no valid record in its input
\* files, returns normally and has done nothing: no snapshot written, the
\* history file neither read nor rewritten (it may be missing), no file
\* moved to trash.
C9_EmptyRunIsNoOp ==
    result = Returns("empty batch") =>
        /\ effects = {}
        /\ snapshot = <<>>
        /\ history = prior_history

\* A run of C9 over staged files without a valid record, the history file
\* missing.
C9_Witness ==
    /\ result = Returns("empty batch")
    /\ temp > 0
    /\ ~history_exists

\* C10: every record of the dated snapshot and of the history file has a
\* debit_amount.
C10_NoNullDebit ==
    \A r \in Range(snapshot) \cup Range(history) : r.debit # NaN

\* A run of C10 has written the snapshot and the history file.
C10_Witness ==
    /\ "history_write" \in effects
    /\ snapshot # <<>>
    /\ history # <<>>

====
